---- MODULE Spec2Model ----
(***************************************************************************)
(* fiche: a TCP front-end that reads a raw byte stream from each client,   *)
(* decides where the stream ends by an idle-read timeout, enforces a size  *)
(* ceiling, forwards the payload to a haste-server and writes the          *)
(* resulting URL back.                                                     *)
(*                                                                         *)
(* The model follows src/main.go (main, Server.Run, Server.handle) and the *)
(* haste client (Client.Paste).  The clients, the transport and the        *)
(* haste-server are the environment: what each call into them returns      *)
(* (the bytes of a read, a timeout, an error, a status, a key) is a        *)
(* nondeterministic choice made when the call returns.  Time is            *)
(* abstracted: a read times out when the client stays silent for one       *)
(* whole read window.  A connection whose read failed with io.EOF or       *)
(* ECONNRESET stays failed: every later read fails again.  The model       *)
(* follows Run and the handlers for as long as they would run; process     *)
(* exit after main returns is not modelled.                                *)
(*                                                                         *)
(* getListener (with systemd.Listeners) and Client.Paste (with             *)
(* newStatusError) are also given as operators and applied, under LibSpec, *)
(* to every inherited-descriptor list and every answer of the              *)
(* haste-server within the bounds.                                         *)
(***************************************************************************)
EXTENDS Integers, Sequences, FiniteSets, TLC

\* ------------------------------------------------------------------ bounds
\* Number of accept attempts that return before the listener is closed,
\* each with a client connection or with an error.
NumConns == 2
\* Largest number of bytes the reads deliver, all connections together.
MaxSend == 4
\* Size of the read chunk `tmp` (1024 in the source, scaled down).
ChunkSize == 2
\* Largest number of file descriptors inherited from systemd.
MaxFiles == 2
\* Size of the io.LimitReader of newStatusError (4*1024 in the source, scaled
\* down).
BodyLimit == 2

\* ---------------------------------------------------------- configuration
\* CLI.Limit, the payload ceiling (131072 by default; any int can be set).
Limit == 2
\* CLI.Hastebin, the configured haste-server URL, as a byte sequence.
Hastebin == <<"h", "/">>

Conns == 1..NumConns

\* ------------------------------------------------------- byte sequences
Min(a, b) == IF a < b THEN a ELSE b

Take(s, n) == SubSeq(s, 1, n)

\* strings.HasSuffix
HasSuffix(s, suffix) ==
  /\ Len(s) >= Len(suffix)
  /\ SubSeq(s, Len(s) - Len(suffix) + 1, Len(s)) = suffix

\* strings.TrimSuffix
TrimSuffix(s, suffix) ==
  IF HasSuffix(s, suffix) THEN Take(s, Len(s) - Len(suffix)) ELSE s

\* haste.NewClient: Client.URL
URL == TrimSuffix(Hastebin, <<"/">>)

\* make([]byte, n): n zero bytes
Zeros(n) == [i \in 1..n |-> "NUL"]

\* copy(dst[off:], src): the number of bytes copied
CopyLen(dst, off, src) == Min(Len(src), Len(dst) - off)

\* copy(dst[off:], src): dst afterwards
Copy(dst, off, src) ==
  [i \in 1..Len(dst) |->
     IF i > off /\ i <= off + CopyLen(dst, off, src) THEN src[i - off] ELSE dst[i]]

\* Compose without the `n++` after the slash: the key overwrites the slash.
ComposeNoAdvance(url, key) ==
  LET res0 == Zeros(Len(url) + Len(key) + 2)
      n1   == CopyLen(res0, 0, url)
      res1 == Copy(res0, 0, url)
      res2 == [res1 EXCEPT ![n1 + 1] = "/"]
      n3   == n1 + CopyLen(res2, n1, key)
      res3 == Copy(res2, n1, key)
  IN  [res3 EXCEPT ![n3 + 1] = "\n"]

\* The response line built at the end of Server.handle.
Compose(url, key) ==
  LET res0 == Zeros(Len(url) + Len(key) + 2)
      n1   == CopyLen(res0, 0, url)
      res1 == Copy(res0, 0, url)
      res2 == [res1 EXCEPT ![n1 + 1] = "/"]
      n2   == n1 + 1
      n3   == n2 + CopyLen(res2, n2, key)
      res3 == Copy(res2, n2, key)
  IN  [res3 EXCEPT ![n3 + 1] = "\n"]

Digit(d) == CASE d = 0 -> "0" [] d = 1 -> "1" [] d = 2 -> "2" [] d = 3 -> "3"
              [] d = 4 -> "4" [] d = 5 -> "5" [] d = 6 -> "6" [] d = 7 -> "7"
              [] d = 8 -> "8" [] d = 9 -> "9"

RECURSIVE ItoaNat(_)
ItoaNat(n) == IF n < 10 THEN <<Digit(n)>> ELSE Append(ItoaNat(n \div 10), Digit(n % 10))

\* strconv.Itoa
Itoa(n) == IF n < 0 THEN <<"-">> \o ItoaNat(0 - n) ELSE ItoaNat(n)

\* The over-limit message written by Server.handle.
LimitMessage ==
  <<"Pastes may not exceed ">> \o Itoa(Limit) \o <<" bytes of data">>

\* The k-th byte client c sends.
Byte(c, k) == 10 * c + k

\* The first n bytes of client c's stream.
Stream(c, n) == [k \in 1..n |-> Byte(c, k)]

\* The n bytes of client c's stream that follow its first m bytes.
Chunk(c, m, n) == [k \in 1..n |-> Byte(c, m + k)]


\* ------------------------------------------------------------ environment
\* Retrieval keys the haste-server may put in its JSON answer ("" when the
\* "key" field is missing or empty).
Keys == {<<>>, <<"x">>, <<"y", "z">>}

\* HTTP status codes the haste-server may answer with.
Statuses == {199, 200, 201, 202, 500}

\* Errors Accept may return, by their text: net.ErrClosed once the listener
\* is closed, and some other failure.
ErrClosed == <<"accept tcp: ", "use of closed network connection">>

ErrOther == <<"accept tcp: ", "too many open files">>

AcceptErrors == {ErrClosed, ErrOther}

\* -------------------------------------------------------------- listener
\* A nil pointer, interface or slice, and a nil error.
Nil == <<"nil">>

\* Kinds of inherited descriptors: a listening stream socket, for which
\* net.FileListener succeeds, and anything else (a datagram socket, a pipe),
\* for which it returns an error.
FdKinds == {"stream", "packet"}

\* What systemd.Files() may return: no descriptor at all (not started by
\* systemd) or LISTEN_FDS descriptors, in order.
FileSeqs == UNION {[1..n -> FdKinds] : n \in 0..MaxFiles}

\* systemd.Listeners: one slot per descriptor, nil where net.FileListener
\* failed; the error is always nil.
Listeners(fs) ==
  [listeners |-> [i \in 1..Len(fs) |->
                    IF fs[i] = "stream" THEN <<"listener", "fd", i>> ELSE Nil],
   err |-> Nil]

\* getListener, with bound telling whether net.Listen on CLI.Listen succeeds.
getListener(fs, bound) ==
  LET r == Listeners(fs) IN
    IF r.err # Nil
      THEN [listener |-> Nil, err |-> <<"failed to get systemd listeners">>]
      ELSE IF Len(r.listeners) = 1
             THEN [listener |-> r.listeners[1], err |-> Nil]
             ELSE IF bound
                    THEN [listener |-> <<"listener", "tcp", 0>>, err |-> Nil]
                    ELSE [listener |-> Nil, err |-> <<"listen tcp: bind failed">>]

\* ----------------------------------------------------------- haste client
\* Largest response body the haste-server sends.
MaxBody == BodyLimit + 2

\* The first n bytes of a response body.
Body(n) == [i \in 1..n |-> 100 + i]

\* What c.http.Do may produce: an error, or a response with a status code
\* and a body (never nil from http.Client) of which `avail` bytes can be read
\* before the read fails (all of them when avail = Len(body)); `decoded` and
\* `key` are what json.Decode makes of a body that can be read.
HttpResults ==
  {[doErr |-> TRUE, status |-> 0, body |-> <<>>, avail |-> 0,
    decoded |-> FALSE, key |-> <<>>]}
  \cup UNION {{[doErr |-> FALSE, status |-> st, body |-> Body(n), avail |-> a,
                decoded |-> d, key |-> k] :
                  st \in Statuses, a \in {0, n}, d \in BOOLEAN, k \in Keys} :
              n \in 0..MaxBody}

\* io.ReadAll(io.LimitReader(res.Body, lim)): the bytes read and whether the
\* read ended without error.  The limited reader stops after lim bytes
\* without touching the rest of the body.
ReadAllLimited(res, lim) ==
  IF res.avail >= Min(Len(res.body), lim)
    THEN [b |-> Take(res.body, Min(Len(res.body), lim)), ok |-> TRUE]
    ELSE [b |-> Take(res.body, res.avail), ok |-> FALSE]

\* newStatusError without the io.LimitReader: the whole body is kept.
newStatusErrorUnlimited(res, expected) ==
  LET r == ReadAllLimited(res, Len(res.body)) IN
    [StatusCode |-> res.status, Expected |-> expected,
     Data |-> IF r.ok THEN r.b ELSE <<>>]

\* newStatusError
newStatusError(res, expected) ==
  LET r == ReadAllLimited(res, BodyLimit) IN
    [StatusCode |-> res.status, Expected |-> expected,
     Data |-> IF r.ok THEN r.b ELSE <<>>]

\* Client.Paste, from the outcome of c.http.Do: <<paste, err>> with paste the
\* decoded PasteResponse or nil.
Paste(res) ==
  IF res.doErr
    THEN [paste |-> Nil, err |-> <<"failed to execute http request">>]
    ELSE IF res.status < 200 \/ res.status > 201
           THEN [paste |-> Nil, err |-> <<"StatusError", newStatusError(res, 200)>>]
           ELSE IF ~(res.decoded /\ res.avail = Len(res.body))
                  THEN [paste |-> Nil, err |-> <<"failed to decode response body">>]
                  ELSE [paste |-> <<"PasteResponse", res.key>>, err |-> Nil]

\* ------------------------------------------------------------------ state
VARIABLES
  cancelled,   \* ctx.Done() is closed (signal.NotifyContext, main)
  lclosed,     \* listener.Close() has run (main's defer)
  rpc,         \* position of Server.Run: "select", "accept", "returned"
  runErr,      \* value returned by Run
  late,        \* late[c]: connection c was accepted after cancellation
  warns,       \* number of "error while accepting connection" records logged
  silent,      \* number of accept failures Run met without logging them
  after,       \* after[c]: the value of warns when connection c was accepted
  hpc,         \* position of handle(c): "none" (connection not yet made),
               \*   "arm", "read", "reject", "paste", "await", "respond", "done"
  nread,       \* number of bytes of client c that conn.Read has delivered
  buf,         \* handle's bytes.Buffer
  rerr,        \* rerr[c]: conn.Read returned an error that is not a timeout
  posted,      \* bodies the haste-server received from handle(c), in order
  key,         \* PasteResponse.Key returned to handle(c)
  store,       \* haste-server: the <<body, key>> pairs it answered with success
  writes,      \* the byte slices handle(c) passed to conn.Write, in order
  closes,      \* number of conn.Close() calls on connection c
  herr,        \* value returned by handle(c): "running", "nil", or an error
  files,       \* what systemd.Files() returns: the kind of each inherited fd
  lres,        \* <<>>, or <<r>> with r what getListener returned
  hres,        \* what the haste-server (or the transport) answers to a Paste
  pres         \* <<>>, or <<r>> with r what Client.Paste returned

svars == <<cancelled, lclosed, rpc, runErr, late, warns, silent, after>>
hvars == <<hpc, nread, buf, rerr, posted, key, store, writes, closes, herr>>
lvars == <<files, lres, hres, pres>>
vars == <<svars, hvars, lvars>>

\* Nothing has been asked of getListener or of Paste.
Idle ==
  /\ lres = <<>>
  /\ pres = <<>>

\* The server as main starts it: Run about to enter its loop, no connection.
Started ==
  /\ cancelled = FALSE
  /\ lclosed = FALSE
  /\ rpc = "select"
  /\ runErr = "none"
  /\ late = [c \in Conns |-> FALSE]
  /\ hpc = [c \in Conns |-> "none"]
  /\ nread = [c \in Conns |-> 0]
  /\ buf = [c \in Conns |-> <<>>]
  /\ rerr = [c \in Conns |-> FALSE]
  /\ posted = [c \in Conns |-> <<>>]
  /\ key = [c \in Conns |-> <<>>]
  /\ store = {}
  /\ writes = [c \in Conns |-> <<>>]
  /\ closes = [c \in Conns |-> 0]
  /\ herr = [c \in Conns |-> "running"]
  /\ warns = 0
  /\ silent = 0
  /\ after = [c \in Conns |-> 0]

\* The process started without inherited descriptors and bound CLI.Listen.
Init ==
  /\ Started
  /\ files = <<>>
  /\ lres = <<getListener(files, TRUE)>>
  /\ hres = CHOOSE r \in HttpResults : r.doErr
  /\ pres = <<>>

\* ------------------------------------------------------------------- main
\* The interrupt arrives: ctx is cancelled.
Cancel ==
  /\ ~cancelled
  /\ cancelled' = TRUE
  /\ UNCHANGED <<lclosed, rpc, runErr, late, warns, silent, after, hvars, lvars>>

\* MainClose without the deferred listener.Close(): main just returns.
MainReturnNoClose ==
  /\ cancelled
  /\ ~lclosed
  /\ UNCHANGED vars

\* main: <-ctx.Done() returns, the deferred listener.Close() runs.
MainClose ==
  /\ cancelled
  /\ ~lclosed
  /\ lclosed' = TRUE
  /\ UNCHANGED <<cancelled, rpc, runErr, late, warns, silent, after, hvars, lvars>>

\* ------------------------------------------------------------- Server.Run
\* RunSelect without the ctx.Done() case: the loop always accepts.
RunSelectNoDone ==
  /\ rpc = "select"
  /\ rpc' = "accept"
  /\ UNCHANGED <<cancelled, lclosed, runErr, late, warns, silent, after, hvars, lvars>>

\* select { case <-ctx.Done(): return ctx.Err(); default: ... }
RunSelect ==
  /\ rpc = "select"
  /\ IF cancelled
       THEN rpc' = "returned" /\ runErr' = "context canceled"
       ELSE rpc' = "accept" /\ runErr' = runErr
  /\ UNCHANGED <<cancelled, lclosed, late, warns, silent, after, hvars, lvars>>

\* The accept attempts that have returned a connection or a logged error.
Attempts == warns + Cardinality({c \in Conns : hpc[c] # "none"})

\* A client connects and s.listener.Accept() returns its connection (the
\* next unused one); handle is started in a goroutine.
AcceptConn(c) ==
  /\ rpc = "accept"
  /\ ~lclosed
  /\ Attempts < NumConns
  /\ hpc[c] = "none"
  /\ \A d \in Conns : d < c => hpc[d] # "none"
  /\ hpc' = [hpc EXCEPT ![c] = "arm"]
  /\ late' = [late EXCEPT ![c] = cancelled]
  /\ after' = [after EXCEPT ![c] = warns]
  /\ rpc' = "select"
  /\ UNCHANGED <<cancelled, lclosed, runErr, warns, silent, lvars,
                 nread, buf, rerr, posted, key, store, writes, closes, herr>>

\* AcceptErr with a failure that is not the closed listener made fatal: Run
\* returns the error.
AcceptErrFatal(e) ==
  /\ rpc = "accept"
  /\ (e = ErrClosed) <=> lclosed
  /\ IF HasSuffix(e, <<"use of closed network connection">>)
       THEN silent' = silent + 1 /\ warns' = warns /\ rpc' = "select"
            /\ runErr' = runErr
       ELSE Attempts < NumConns /\ warns' = warns + 1 /\ silent' = silent
            /\ rpc' = "returned" /\ runErr' = "accept failed"
  /\ UNCHANGED <<cancelled, lclosed, late, after, hvars, lvars>>

\* AcceptErr with the suffix test dropped: every accept failure is logged.
AcceptErrLogAll(e) ==
  /\ rpc = "accept"
  /\ (e = ErrClosed) <=> lclosed
  /\ warns' = warns + 1 /\ silent' = silent
  /\ e # ErrClosed => Attempts < NumConns
  /\ rpc' = "select"
  /\ UNCHANGED <<cancelled, lclosed, runErr, late, after, hvars, lvars>>

\* s.listener.Accept() returns an error: both branches `break` out of the
\* select only, so the loop goes round again.
AcceptErr(e) ==
  /\ rpc = "accept"
  /\ (e = ErrClosed) <=> lclosed
  /\ IF HasSuffix(e, <<"use of closed network connection">>)
       THEN silent' = silent + 1 /\ warns' = warns
       ELSE Attempts < NumConns /\ warns' = warns + 1 /\ silent' = silent
  /\ rpc' = "select"
  /\ UNCHANGED <<cancelled, lclosed, runErr, late, after, hvars, lvars>>

\* ---------------------------------------------------------- Server.handle
\* Return without the deferred conn.Close().
ReturnNoClose(c, e) ==
  /\ hpc' = [hpc EXCEPT ![c] = "done"]
  /\ closes' = closes
  /\ herr' = [herr EXCEPT ![c] = e]
  /\ buf' = [buf EXCEPT ![c] = <<>>]

\* handle returns e: the deferred conn.Close() runs; the local buf goes out
\* of scope.
Return(c, e) ==
  /\ hpc' = [hpc EXCEPT ![c] = "done"]
  /\ closes' = [closes EXCEPT ![c] = @ + 1]
  /\ herr' = [herr EXCEPT ![c] = e]
  /\ buf' = [buf EXCEPT ![c] = <<>>]

\* conn.SetReadDeadline(now + 2s) at the top of the read loop.
ArmRead(c) ==
  /\ hpc[c] = "arm"
  /\ \E ok \in BOOLEAN :
       IF ok
         THEN hpc' = [hpc EXCEPT ![c] = "read"] /\ UNCHANGED <<closes, herr, buf>>
         ELSE Return(c, "failed to set read deadline")
  /\ UNCHANGED <<svars, lvars, nread, rerr, posted, key, store, writes>>

\* AfterRead with the deadline armed once, before the loop: the next read
\* follows without SetReadDeadline.
AfterReadNoRearm(c, data) ==
  /\ buf' = [buf EXCEPT ![c] = @ \o data]
  /\ hpc' = [hpc EXCEPT ![c] = IF Len(buf[c] \o data) > Limit THEN "reject" ELSE "read"]

\* AfterRead without the ceiling check.
AfterReadNoCeiling(c, data) ==
  /\ buf' = [buf EXCEPT ![c] = @ \o data]
  /\ hpc' = [hpc EXCEPT ![c] = "arm"]

\* AfterRead with the ceiling check off by one chunk.
AfterReadLax(c, data) ==
  /\ buf' = [buf EXCEPT ![c] = @ \o data]
  /\ hpc' = [hpc EXCEPT ![c] =
               IF Len(buf[c] \o data) > Limit + ChunkSize THEN "reject" ELSE "arm"]

\* AfterRead with one buffer shared by all handlers.
AfterReadShared(c, data) ==
  /\ buf' = [d \in Conns |-> buf[c] \o data]
  /\ hpc' = [hpc EXCEPT ![c] = IF Len(buf[c] \o data) > Limit THEN "reject" ELSE "arm"]

\* buf.Write(tmp[:n]) followed by the ceiling check.
AfterRead(c, data) ==
  /\ buf' = [buf EXCEPT ![c] = @ \o data]
  /\ hpc' = [hpc EXCEPT ![c] = IF Len(buf[c] \o data) > Limit THEN "reject" ELSE "arm"]

RECURSIVE Sum(_, _)
Sum(f, S) == IF S = {} THEN 0 ELSE LET x == CHOOSE x \in S : TRUE IN f[x] + Sum(f, S \ {x})

\* conn.Read(tmp) returns n > 0 bytes, the next n of the client's stream.
ReadData(c) ==
  /\ hpc[c] = "read"
  /\ ~rerr[c]
  /\ \E n \in 1..ChunkSize :
       /\ Sum(nread, Conns) + n <= MaxSend
       /\ LET tmp == Chunk(c, nread[c], n) IN AfterRead(c, Take(tmp, n))
       /\ nread' = [nread EXCEPT ![c] = @ + n]
  /\ UNCHANGED <<svars, lvars, rerr, posted, key, store, writes, closes, herr>>

\* ReadTimeout that answers at once, before anything is published.
ReadTimeoutSkipPaste(c) ==
  /\ hpc[c] = "read"
  /\ ~rerr[c]
  /\ IF Len(buf[c]) < 1
       THEN Return(c, "nil")
       ELSE hpc' = [hpc EXCEPT ![c] = "respond"] /\ UNCHANGED <<closes, herr, buf>>
  /\ UNCHANGED <<svars, lvars, nread, rerr, posted, key, store, writes>>

\* ReadTimeout without the empty-buffer check.
ReadTimeoutNoEmptyCheck(c) ==
  /\ hpc[c] = "read"
  /\ ~rerr[c]
  /\ hpc' = [hpc EXCEPT ![c] = "paste"]
  /\ UNCHANGED <<closes, herr, buf>>
  /\ UNCHANGED <<svars, lvars, nread, rerr, posted, key, store, writes>>

\* conn.Read(tmp) hits the read deadline: the client is connected and sent
\* nothing during the window.
ReadTimeout(c) ==
  /\ hpc[c] = "read"
  /\ ~rerr[c]
  /\ IF Len(buf[c]) < 1
       THEN Return(c, "nil")
       ELSE hpc' = [hpc EXCEPT ![c] = "paste"] /\ UNCHANGED <<closes, herr, buf>>
  /\ UNCHANGED <<svars, lvars, nread, rerr, posted, key, store, writes>>

\* conn.Read(tmp) returns (0, err) with err not a timeout: io.EOF after the
\* client closed, ECONNRESET after a reset.  The error is dropped and the
\* loop continues with buf.Write(tmp[:0]).
ReadError(c) ==
  /\ hpc[c] = "read"
  /\ rerr' = [rerr EXCEPT ![c] = TRUE]
  /\ AfterRead(c, <<>>)
  /\ UNCHANGED <<svars, lvars, nread, posted, key, store, writes, closes, herr>>

\* conn.Write(b) under a fresh write deadline: arming the deadline fails, or
\* all of b is written, or Write returns an error (only part of b was sent).
WriteOut(c, b) ==
  \E result \in {"no deadline", "written", "failed"} :
    IF result = "no deadline"
      THEN /\ Return(c, "failed to set write deadline")
           /\ UNCHANGED writes
      ELSE /\ writes' = [writes EXCEPT ![c] = Append(@, b)]
           /\ Return(c, IF result = "written" THEN "nil" ELSE "write failed")

\* Reject that writes the message and goes on reading instead of returning.
RejectNoReturn(c) ==
  /\ hpc[c] = "reject"
  /\ writes' = [writes EXCEPT ![c] = Append(@, LimitMessage)]
  /\ hpc' = [hpc EXCEPT ![c] = "arm"]
  /\ buf' = [buf EXCEPT ![c] = <<>>]
  /\ UNCHANGED <<svars, lvars, nread, rerr, posted, key, store, closes, herr>>

\* The payload exceeded the ceiling: write the over-limit message and return.
Reject(c) ==
  /\ hpc[c] = "reject"
  /\ WriteOut(c, LimitMessage)
  /\ UNCHANGED <<svars, lvars, nread, rerr, posted, key, store>>

\* Client.Paste up to c.http.Do: the request carries ctx, so nothing is sent
\* once ctx is cancelled; the connection to the haste-server may also fail.
\* Otherwise the haste-server receives the buffer as the request body.
PasteSend(c) ==
  /\ hpc[c] = "paste"
  /\ \E sent \in (IF cancelled THEN {FALSE} ELSE BOOLEAN) :
       IF sent
         THEN /\ posted' = [posted EXCEPT ![c] = Append(@, buf[c])]
              /\ hpc' = [hpc EXCEPT ![c] = "await"]
              /\ UNCHANGED <<closes, herr, buf>>
         ELSE /\ Return(c, "failed to forward data to hastebin")
              /\ UNCHANGED posted
  /\ UNCHANGED <<svars, lvars, nread, rerr, key, store, writes>>

\* Client.Paste accepts status 200 and 201 only.
StatusOK(status) == ~(status < 200 \/ status > 201)

\* PasteRecv with the error of Paste ignored: the handler goes on to respond.
PasteRecvIgnoreErr(c) ==
  /\ hpc[c] = "await"
  /\ \E status \in Statuses, decoded \in BOOLEAN, k \in Keys :
       /\ hpc' = [hpc EXCEPT ![c] = "respond"]
       /\ IF ~cancelled /\ StatusOK(status) /\ decoded
            THEN /\ key' = [key EXCEPT ![c] = k]
                 /\ store' = store \cup {<<posted[c][Len(posted[c])], k>>}
            ELSE UNCHANGED <<key, store>>
  /\ UNCHANGED <<closes, herr, buf>>
  /\ UNCHANGED <<svars, lvars, nread, rerr, posted, writes>>

\* Client.Paste from the return of c.http.Do: ctx cancelled or transport
\* failure, a status outside 200..201, an undecodable body, or a key.
PasteRecv(c) ==
  /\ hpc[c] = "await"
  /\ \/ /\ Return(c, "failed to forward data to hastebin")
        /\ UNCHANGED <<key, store>>
     \/ /\ ~cancelled
        /\ \E status \in Statuses, decoded \in BOOLEAN, k \in Keys :
             IF StatusOK(status) /\ decoded
               THEN /\ key' = [key EXCEPT ![c] = k]
                    /\ store' = store \cup {<<posted[c][Len(posted[c])], k>>}
                    /\ hpc' = [hpc EXCEPT ![c] = "respond"]
                    /\ UNCHANGED <<closes, herr, buf>>
               ELSE /\ Return(c, "failed to forward data to hastebin")
                    /\ UNCHANGED <<key, store>>
  /\ UNCHANGED <<svars, lvars, nread, rerr, posted, writes>>

\* The response line is composed and written.
Respond(c) ==
  /\ hpc[c] = "respond"
  /\ WriteOut(c, Compose(URL, key[c]))
  /\ UNCHANGED <<svars, lvars, nread, rerr, posted, key, store>>

\* ---------------------------------------------------------- specification
Next ==
  \/ Cancel
  \/ MainClose
  \/ RunSelect
  \/ \E e \in AcceptErrors : AcceptErr(e)
  \/ \E c \in Conns :
       \/ AcceptConn(c)
       \/ ArmRead(c)
       \/ ReadData(c)
       \/ ReadTimeout(c)
       \/ ReadError(c)
       \/ Reject(c)
       \/ PasteSend(c)
       \/ PasteRecv(c)
       \/ Respond(c)

Spec == Init /\ [][Next]_vars

\* Handler steps are taken by goroutines the Go scheduler keeps running, and
\* every read and write on a connection is under a deadline, so each enabled
\* handler step eventually happens; the haste-server is assumed to answer.
HandlerStep(c) ==
  \/ ArmRead(c)
  \/ ReadData(c)
  \/ ReadTimeout(c)
  \/ ReadError(c)
  \/ Reject(c)
  \/ PasteSend(c)
  \/ PasteRecv(c)
  \/ Respond(c)

FairSpec == Spec /\ \A c \in Conns : WF_vars(HandlerStep(c))

\* The steps of the shutdown: the main goroutine is woken by ctx.Done() and
\* runs its deferred Close; the goroutine of Run is scheduled, and Accept on
\* a closed listener returns its error at once.
ShutdownStep == MainClose \/ RunSelect \/ AcceptErr(ErrClosed)

ShutdownSpec == Spec /\ WF_vars(ShutdownStep)

\* -------------------------------------------------- getListener and Paste
\* main calls getListener.
CallGetListener ==
  /\ lres = <<>>
  /\ \E bound \in BOOLEAN : lres' = <<getListener(files, bound)>>
  /\ UNCHANGED <<svars, hvars, files, hres, pres>>

\* Paste returns.
CallPaste ==
  /\ pres = <<>>
  /\ pres' = <<Paste(hres)>>
  /\ UNCHANGED <<svars, hvars, files, lres, hres>>

\* getListener and Paste on every input: the inherited descriptors and the
\* answer of the haste-server are drawn at the start.
LibInit ==
  /\ Started
  /\ files \in FileSeqs
  /\ hres \in HttpResults
  /\ Idle

LibNext == CallGetListener \/ CallPaste

LibSpec == LibInit /\ [][LibNext]_vars

\* ----------------------------------------------------------------- claims
Done(c) == hpc[c] = "done"

\* The line the client is to receive for key k.
Expected(k) == URL \o <<"/">> \o k \o <<"\n">>

\* The over-limit message, as the client is to see it.
RejectionText == <<"Pastes may not exceed ", Digit(Limit), " bytes of data">>

\* The haste-server answered the publish of body b with key k.
Stored(b, k) == <<b, k>> \in store

ForwardFailed == "failed to forward data to hastebin"

\* handle(c) returned nil after conn.Write(b) returned no error: the client
\* of c was sent exactly the bytes b, and nothing else.
Received(c, b) == Done(c) /\ herr[c] = "nil" /\ writes[c] = <<b>>

\* C1: a client that sent P bytes, 1 <= P <= Limit, and then stayed idle, and
\* whose handler met no failure, had exactly its P bytes published, in order
\* and once, and received exactly URL + "/" + key + "\n" for the key the
\* haste-server returned for those bytes (so equal keys give equal lines).
C1_ResponseIsUrlSlashKey ==
  \A c \in Conns :
    (Done(c) /\ nread[c] \in 1..Limit /\ herr[c] = "nil") =>
      /\ posted[c] = <<Stream(c, nread[c])>>
      /\ Stored(Stream(c, nread[c]), key[c])
      /\ Received(c, Expected(key[c]))

C1_Witness ==
  \E c \in Conns :
    /\ nread[c] = Limit
    /\ posted[c] = <<Stream(c, Limit)>>
    /\ key[c] = <<"y", "z">>
    /\ Received(c, <<"h", "/", "y", "z", "\n">>)

\* C2: the read loop never continues, and nothing is published, with more
\* than Limit bytes accumulated; a client that delivered more than Limit
\* bytes is never published and, if its handler met no failure, was sent
\* exactly the over-limit message.
C2_OverLimitRejected ==
  \A c \in Conns :
    /\ hpc[c] \in {"arm", "read", "paste", "await", "respond"} => Len(buf[c]) <= Limit
    /\ hpc[c] = "reject" => Len(buf[c]) > Limit /\ posted[c] = <<>> /\ writes[c] = <<>>
    /\ \A i \in 1..Len(posted[c]) : Len(posted[c][i]) <= Limit
    /\ nread[c] > Limit =>
         /\ hpc[c] \in {"reject", "done"}
         /\ posted[c] = <<>>
         /\ (Done(c) /\ herr[c] = "nil") => Received(c, RejectionText)

C2_Witness ==
  \E c \in Conns :
    /\ nread[c] = Limit + 1
    /\ posted[c] = <<>>
    /\ Received(c, <<"Pastes may not exceed ", "2", " bytes of data">>)

\* C3 (as claimed): once a read has failed with an error that is not a
\* timeout, the handler has returned that error, without publishing and
\* without writing.
C3_ReadErrorIsTerminal ==
  \A c \in Conns :
    rerr[c] => Done(c) /\ herr[c] # "nil" /\ posted[c] = <<>> /\ writes[c] = <<>>

\* C4 (as claimed): every handler that was started eventually returns and
\* closes its connection.
C4_HandlerTerminates ==
  \A c \in Conns : (hpc[c] # "none") ~> (Done(c) /\ closes[c] = 1)

\* C5: when a read times out on a connection whose client has sent nothing,
\* the handler returns nil at once and closes the connection; a client that
\* sent nothing is never published and never written to.
C5_EmptyTimeout ==
  /\ [](\A c \in Conns : (nread[c] = 0) => posted[c] = <<>> /\ writes[c] = <<>>)
  /\ [][\A c \in Conns :
         (hpc[c] = "read" /\ hpc'[c] # "read" /\ nread'[c] = 0 /\ ~rerr'[c]) =>
           hpc'[c] = "done" /\ herr'[c] = "nil" /\ closes'[c] = 1]_vars

C5_Witness ==
  \E c \in Conns :
    Done(c) /\ nread[c] = 0 /\ herr[c] = "nil" /\ closes[c] = 1 /\ writes[c] = <<>>

C7_AtMostOneWrite ==
  \A c \in Conns :
    /\ Len(writes[c]) <= 1
    /\ writes[c] # <<>> =>
         \/ /\ writes[c][1] = Expected(key[c])
            /\ posted[c] # <<>>
            /\ Stored(posted[c][1], key[c])
         \/ /\ writes[c][1] = RejectionText
            /\ posted[c] = <<>>
    /\ (nread[c] = 0 \/ rerr[c]) => writes[c] = <<>>
    /\ herr[c] \in {"failed to set read deadline", "failed to set write deadline",
                    ForwardFailed} => writes[c] = <<>>

C7_Witness ==
  \E c, d \in Conns :
    /\ Done(c) /\ writes[c] = <<RejectionText>>
    /\ Done(d) /\ writes[d] = <<Expected(<<"x">>)>>

\* C8: a handler whose publish failed returns that error with nothing
\* written and its connection closed; the step in which it fails changes
\* nothing of any other connection nor of the accept loop, which returns
\* only on cancellation; the other handler's response is still the correct one.
C8_UpstreamFailureIsolated ==
  /\ [](\A c \in Conns :
         /\ hpc[c] = "respond" => posted[c] # <<>> /\ Stored(posted[c][1], key[c])
         /\ (Done(c) /\ (herr[c] = ForwardFailed
                          \/ (posted[c] # <<>> /\ ~Stored(posted[c][1], key[c])))) =>
              herr[c] = ForwardFailed /\ writes[c] = <<>> /\ closes[c] = 1
         /\ \A d \in Conns \ {c} :
              (Done(c) /\ herr[c] = ForwardFailed /\ Done(d) /\ herr[d] = "nil"
                 /\ posted[d] # <<>>) =>
                Received(d, Expected(key[d])) /\ Stored(Stream(d, nread[d]), key[d]))
  /\ [](rpc = "returned" => cancelled)
  /\ [][\A c \in Conns :
         (herr[c] = "running" /\ herr'[c] = ForwardFailed) =>
           /\ rpc' = rpc /\ runErr' = runErr
           /\ \A d \in Conns \ {c} :
                /\ hpc'[d] = hpc[d] /\ buf'[d] = buf[d] /\ nread'[d] = nread[d]
                /\ posted'[d] = posted[d] /\ key'[d] = key[d]
                /\ writes'[d] = writes[d]
                /\ closes'[d] = closes[d] /\ herr'[d] = herr[d]]_vars

C8_Witness ==
  \E c, d \in Conns :
    /\ Done(c) /\ herr[c] = ForwardFailed /\ posted[c] # <<>> /\ writes[c] = <<>>
    /\ Received(d, Expected(<<"x">>))
    /\ rpc = "accept" /\ ~cancelled

\* What belongs to the handler of c and to its connection.
Own(c) ==
  <<hpc[c], buf[c], nread[c], rerr[c], posted[c], key[c], writes[c], closes[c], herr[c]>>

\* C9: whatever the interleaving, the bytes a handler has buffered are the
\* bytes of its own client, in order; what it publishes is exactly what its
\* client sent; the line it writes carries the key returned for its own
\* payload; and no step touches two connections.
C9_NoCrossContamination ==
  /\ [](\A c \in Conns :
         /\ ~Done(c) => buf[c] = Stream(c, nread[c])
         /\ posted[c] \in {<<>>, <<Stream(c, nread[c])>>}
         /\ (writes[c] # <<>> /\ posted[c] # <<>>) =>
              /\ writes[c] = <<Expected(key[c])>>
              /\ Stored(Stream(c, nread[c]), key[c]))
  /\ [][Cardinality({c \in Conns : Own(c)' # Own(c)}) <= 1]_vars

C9_Witness ==
  /\ \A c \in Conns : posted[c] = <<Stream(c, nread[c])>>
  /\ nread[1] = 2 /\ nread[2] = 1
  /\ Received(1, Expected(<<"x">>))
  /\ Received(2, Expected(<<"y", "z">>))

\* C10 (as claimed): no connection is accepted once ctx is cancelled.
C10_NoAcceptAfterCancel == \A c \in Conns : ~late[c]

\* C10 (amended): after cancellation at most one connection is accepted, by
\* the accept attempt that was already blocked when the signal came; having
\* accepted it the loop is back at its check of the signal, and once Run has
\* returned no connection is accepted.
C10_AtMostOneLateAccept ==
  /\ [](Cardinality({c \in Conns : late[c]}) <= 1)
  /\ []((\E c \in Conns : late[c]) => rpc \in {"select", "returned"})
  /\ [][\A c \in Conns :
         (hpc[c] = "none" /\ hpc'[c] # "none") =>
           /\ rpc = "accept" /\ rpc' = "select"
           /\ cancelled => \A d \in Conns : ~late[d]]_vars

C10_Witness ==
  \E c \in Conns : late[c] /\ rpc = "returned" /\ Done(c) /\ herr[c] = "nil"

\* handle(c) can go on from where it is into the position pc.
CanReach(c, pc) == ENABLED (HandlerStep(c) /\ hpc'[c] = pc)

\* C11 (as claimed): the handler of a connection that was accepted before
\* ctx was cancelled goes on as it would have without the cancellation: with
\* its payload read it can still send it to the haste-server, with the
\* request sent it can still receive the key, and with the key it can still
\* write its response.
C11_CancelDoesNotAbort ==
  \A c \in Conns :
    ~late[c] =>
      /\ hpc[c] = "paste" => CanReach(c, "await")
      /\ hpc[c] = "await" => CanReach(c, "respond")
      /\ hpc[c] = "respond" => CanReach(c, "done")

CanAccept == \E c \in Conns : ENABLED AcceptConn(c)

\* C14: an accept failure on an open listener is logged and leaves Run at
\* the top of its loop, from where (unless ctx is cancelled) it goes to the
\* next accept attempt; whatever the number of failures, the accept attempt
\* can still return a connection, whose handler is started; Run returns only
\* on cancellation and only ctx.Err().
C14_AcceptErrorsNotFatal ==
  /\ [][(rpc = "accept" /\ ~lclosed /\ rpc' # "accept" /\ hpc' = hpc) =>
         /\ warns' = warns + 1 /\ silent' = silent
         /\ rpc' = "select" /\ runErr' = runErr]_vars
  /\ [][(rpc = "select" /\ ~cancelled /\ rpc' # rpc) => rpc' = "accept"]_vars
  /\ []((rpc = "accept" /\ ~lclosed /\ Attempts < NumConns) => CanAccept)
  /\ [](\A c \in Conns : hpc[c] # "none" => after[c] <= warns)
  /\ [](runErr \in {"none", "context canceled"})
  /\ [](rpc = "returned" <=> runErr = "context canceled")
  /\ [](runErr = "context canceled" => cancelled)

\* A connection accepted after a logged accept failure was served.
C14_Witness ==
  \E c \in Conns :
    /\ after[c] = 1 /\ warns = 1 /\ ~cancelled /\ rpc = "accept"
    /\ Received(c, Expected(<<"x">>))

\* The phase of handle(c): 1 Reading, 2 and 3 Publish (before and after the
\* request is sent), 4 Respond (the response line or the over-limit
\* message), 5 closed.
Phase(pc) ==
  CASE pc = "none" -> 0
    [] pc \in {"arm", "read"} -> 1
    [] pc = "paste" -> 2
    [] pc = "await" -> 3
    [] pc \in {"respond", "reject"} -> 4
    [] pc = "done" -> 5

\* C15: a handler goes through Reading, Publish, Respond and Close in that
\* order and never back: Paste is entered at most once and sends at most one
\* request, whose body is the buffer as the last read left it; nothing is
\* read once Publish has started; the response line is written only after
\* Paste returned a key; the close is the last event of the connection.
C15_StrictPhaseOrder ==
  /\ [][\A c \in Conns :
         /\ hpc'[c] # hpc[c] =>
              \/ Phase(hpc'[c]) > Phase(hpc[c])
              \/ Phase(hpc'[c]) = 1 /\ Phase(hpc[c]) = 1
         /\ (nread'[c] # nread[c] \/ rerr'[c] # rerr[c]) => hpc[c] = "read"
         /\ posted'[c] # posted[c] =>
              /\ hpc[c] = "paste" /\ hpc'[c] = "await"
              /\ posted'[c] = <<buf[c]>> /\ buf[c] = Stream(c, nread[c])
         /\ writes'[c] # writes[c] =>
              /\ hpc[c] \in {"respond", "reject"} /\ hpc'[c] = "done"
              /\ hpc[c] = "respond" => writes'[c] = <<Expected(key[c])>>
         /\ closes'[c] # closes[c] => hpc[c] # "done" /\ hpc'[c] = "done"]_vars
  /\ [](\A c \in Conns :
         /\ Len(posted[c]) <= 1
         /\ posted[c] # <<>> => Phase(hpc[c]) >= 3
         /\ hpc[c] = "respond" => posted[c] # <<>> /\ Stored(posted[c][1], key[c])
         /\ closes[c] > 0 <=> hpc[c] = "done")

\* A connection went through all four phases.
C15_Witness ==
  \E c \in Conns :
    /\ Done(c) /\ closes[c] = 1 /\ herr[c] = "write failed"
    /\ posted[c] = <<Stream(c, 1)>>
    /\ writes[c] = <<Expected(<<"y", "z">>)>>

\* C16: every read attempt follows an arming of the read deadline made for
\* it, and each arming serves one attempt; a read that delivers data is
\* followed by another arming and read as long as the payload is within the
\* ceiling, and by the over-limit answer otherwise; the input is declared
\* finished only by a read attempt whose whole window passed without data;
\* a handler whose arming failed returns that error, having published and
\* written nothing.
C16_DeadlineRearmedPerRead ==
  /\ [][\A c \in Conns :
         /\ (hpc'[c] = "read" /\ hpc[c] # "read") => hpc[c] = "arm"
         /\ (hpc[c] = "read" /\ hpc'[c] = "read") =>
              nread'[c] = nread[c] /\ rerr'[c] = rerr[c] /\ buf'[c] = buf[c]
         /\ nread'[c] # nread[c] =>
              /\ hpc[c] = "read" /\ nread'[c] > nread[c]
              /\ hpc'[c] = (IF nread'[c] > Limit THEN "reject" ELSE "arm")
         /\ (Phase(hpc[c]) = 1 /\ hpc'[c] = "paste") =>
              /\ hpc[c] = "read" /\ nread'[c] = nread[c] /\ ~rerr[c]
              /\ nread[c] \in 1..Limit
         /\ (hpc[c] = "arm" /\ hpc'[c] # "arm") =>
              \/ hpc'[c] = "read" /\ herr'[c] = "running"
              \/ hpc'[c] = "done" /\ herr'[c] = "failed to set read deadline"]_vars
  /\ [](\A c \in Conns :
         herr[c] = "failed to set read deadline" =>
           Done(c) /\ posted[c] = <<>> /\ writes[c] = <<>> /\ closes[c] = 1)

\* One client kept delivering until it was over the ceiling; the arming
\* failed for another after its first byte.
C16_Witness ==
  \E c, d \in Conns :
    /\ hpc[c] = "reject" /\ nread[c] = Limit + 1
    /\ herr[d] = "failed to set read deadline" /\ nread[d] = 1

\* C17 (as claimed): no response line is written for an empty key: a handler
\* that wrote after a publish holds a key that is not empty, and the line
\* URL + "/" + "\n" is never written.
C17_NoResponseForEmptyKey ==
  \A c \in Conns :
    /\ (writes[c] # <<>> /\ posted[c] # <<>>) => key[c] # <<>>
    /\ \A i \in 1..Len(writes[c]) : writes[c][i] # URL \o <<"/", "\n">>

\* C18: Paste returns a PasteResponse, and then no error, only for a
\* response with status 200 or 201; for a response with any other status it
\* returns no PasteResponse and a StatusError with the status code received
\* and, as Data, a prefix of the response body of at most BodyLimit bytes.
C18_PasteKeyOnlyOnSuccess ==
  pres # <<>> =>
    LET r == pres[1] IN
      /\ (r.paste # Nil) <=> (r.err = Nil)
      /\ r.paste # Nil =>
           /\ ~hres.doErr /\ hres.status \in {200, 201}
           /\ r.paste = <<"PasteResponse", hres.key>>
      /\ (~hres.doErr /\ hres.status \notin {200, 201}) =>
           /\ r.paste = Nil
           /\ r.err[1] = "StatusError"
           /\ r.err[2].StatusCode = hres.status
           /\ Len(r.err[2].Data) <= BodyLimit
           /\ r.err[2].Data = Take(hres.body, Len(r.err[2].Data))

\* A status 500 with a body longer than the limit: Data is cut at the limit.
C18_Witness ==
  /\ pres # <<>> /\ ~hres.doErr
  /\ hres.status = 500 /\ Len(hres.body) = MaxBody
  /\ pres[1].paste = Nil
  /\ pres[1].err[2].Data = Body(BodyLimit)

\* C19: the buffer of a handler never holds more than Limit bytes plus one
\* read chunk, and it holds more than Limit only at the over-limit answer;
\* whenever Paste is called, and in every request the haste-server receives,
\* the payload has between 1 and Limit bytes.
C19_BufferBounded ==
  \A c \in Conns :
    /\ Len(buf[c]) <= Limit + ChunkSize
    /\ Len(buf[c]) > Limit => hpc[c] = "reject"
    /\ hpc[c] \in {"paste", "await"} => Len(buf[c]) \in 1..Limit
    /\ \A i \in 1..Len(posted[c]) : Len(posted[c][i]) \in 1..Limit

\* A buffer at its largest: Limit bytes, then one full chunk.
C19_Witness ==
  \E c \in Conns :
    /\ hpc[c] = "reject"
    /\ Len(buf[c]) = Limit + ChunkSize
    /\ buf[c] = Stream(c, Limit + ChunkSize)

\* C20 (as claimed): when getListener returns a nil error the listener it
\* returns is not nil, whatever descriptors were inherited.
C20_ListenerNonNil ==
  lres # <<>> => (lres[1].err = Nil => lres[1].listener # Nil)

====
